---- MODULE Spec2Model ----
(***************************************************************************)
(* Model of the Maven POM command line tool (11_libs/scripts/cli.py):      *)
(* property resolution, version ordering, matrix aggregation,              *)
(* serialization, POM file parsing, the batch loop over the POM files,     *)
(* validation of a PomInfo and the analyze command.                        *)
(*                                                                         *)
(* Python strings are modelled as sequences of one-character strings, so   *)
(* that scanning, replacing, splitting and lexicographic comparison are    *)
(* computed character by character as the code computes them.  None is a   *)
(* value of its own, different from every string.                          *)
(***************************************************************************)
EXTENDS Integers, Sequences, FiniteSets, TLC

VARIABLES
    value, properties, resolved, rpc,
    versions, sorted_versions, vpc,
    pom_list, pi, matrix, serialized, reserialized, mpc,
    files, pom_files, fi, fpc, exc, opened, attempts, failed_files, ret,
    cur_pom, cur_file, issues, check,
    validate, zi, all_issues, status

resolverVars == <<value, properties, resolved, rpc>>
versionVars == <<versions, sorted_versions, vpc>>
matrixVars == <<pi, matrix, serialized, reserialized, mpc>>
batchVars == <<files, pom_files, fi, fpc, exc, opened, attempts, failed_files, ret>>
validateVars == <<cur_pom, cur_file, issues, check>>
analyzeVars == <<validate, zi, all_issues, status>>
vars == <<resolverVars, versionVars, pom_list, matrixVars, batchVars, validateVars,
          analyzeVars>>

----------------------------------------------------------------------------
(* Bounds of the model *)

MaxTokens == 3
MaxVersions == 3
MaxPoms == 3
MaxFiles == 3

----------------------------------------------------------------------------
(* Strings *)

None == <<"None">>

\* Python truthiness of an optional string: None and "" are falsy.
Truthy(s) == s /= None /\ s /= <<>>

\* str(x) of an optional string.
Str(x) == IF x = None THEN <<"N", "o", "n", "e">> ELSE x

\* The characters of the model's strings, each run in code point order.
Punctuation == <<"$", "-", ".", ":">>
PunctuationCodes == <<36, 45, 46, 58>>
DigitChars == <<"0", "1", "2", "3", "4", "5", "6", "7", "8", "9">>
UpperChars ==
    <<"A", "B", "C", "D", "E", "F", "G", "H", "I", "J", "K", "L", "M",
      "N", "O", "P", "Q", "R", "S", "T", "U", "V", "W", "X", "Y", "Z">>
LowerChars ==
    <<"a", "b", "c", "d", "e", "f", "g", "h", "i", "j", "k", "l", "m",
      "n", "o", "p", "q", "r", "s", "t", "u", "v", "w", "x", "y", "z">>
Braces == <<"{", "}">>
BraceCodes == <<123, 125>>

Range(f) == {f[i] : i \in DOMAIN f}

IndexIn(seq, c) == CHOOSE i \in 1..Len(seq) : seq[i] = c

CharSet ==
    Range(Punctuation) \cup Range(DigitChars) \cup Range(UpperChars)
        \cup Range(LowerChars) \cup Range(Braces)

\* ord(c)
Ord ==
    [c \in CharSet |->
        IF c \in Range(Punctuation) THEN PunctuationCodes[IndexIn(Punctuation, c)]
        ELSE IF c \in Range(DigitChars) THEN 47 + IndexIn(DigitChars, c)
        ELSE IF c \in Range(UpperChars) THEN 64 + IndexIn(UpperChars, c)
        ELSE IF c \in Range(LowerChars) THEN 96 + IndexIn(LowerChars, c)
        ELSE BraceCodes[IndexIn(Braces, c)]]

Digits == Range(DigitChars)

IsDigitChar(c) == c \in Digits

DigitVal(c) == Ord[c] - 48

\* Python's str < str: lexicographic by code point, a proper prefix is smaller.
RECURSIVE StrLt(_, _)
StrLt(s, t) ==
    IF t = <<>> THEN FALSE
    ELSE IF s = <<>> THEN TRUE
    ELSE IF Head(s) = Head(t) THEN StrLt(Tail(s), Tail(t))
    ELSE Ord[Head(s)] < Ord[Head(t)]

\* s[i .. i + Len(sub) - 1] = sub
OccursAt(s, sub, i) ==
    /\ i + Len(sub) - 1 <= Len(s)
    /\ \A j \in 1..Len(sub) : s[i + j - 1] = sub[j]

\* sub in s
Contains(s, sub) == \E i \in 1..(Len(s) + 1) : OccursAt(s, sub, i)

\* s.startswith(prefix)
StartsWith(s, prefix) == OccursAt(s, prefix, 1)

\* s.endswith(suffix)
EndsWith(s, suffix) ==
    Len(suffix) <= Len(s) /\ OccursAt(s, suffix, Len(s) - Len(suffix) + 1)

\* str.replace(old, new) with a non-empty old: every non-overlapping occurrence,
\* scanning left to right.
RECURSIVE ReplaceFrom(_, _, _, _)
ReplaceFrom(s, old, new, i) ==
    IF i > Len(s) THEN <<>>
    ELSE IF OccursAt(s, old, i) THEN new \o ReplaceFrom(s, old, new, i + Len(old))
    ELSE <<s[i]>> \o ReplaceFrom(s, old, new, i + 1)

Replace(s, old, new) == ReplaceFrom(s, old, new, 1)

----------------------------------------------------------------------------
(* PropertyResolver.resolve *)

\* Index of the first "}" of s at or after position i, 0 when there is none.
RECURSIVE FirstClose(_, _)
FirstClose(s, i) ==
    IF i > Len(s) THEN 0
    ELSE IF s[i] = "}" THEN i
    ELSE FirstClose(s, i + 1)

\* Whether the pattern \$\{([^}]+)\} matches at position p of s.
MatchesAt(s, p) ==
    /\ p + 3 <= Len(s)
    /\ s[p] = "$"
    /\ s[p + 1] = "{"
    /\ FirstClose(s, p + 2) >= p + 3

\* re.finditer(pattern, s): the non-overlapping matches from position i on, left to
\* right, each as [first, last] positions of s.
RECURSIVE FindIter(_, _)
FindIter(s, i) ==
    IF i > Len(s) THEN <<>>
    ELSE IF MatchesAt(s, i)
         THEN <<[first |-> i, last |-> FirstClose(s, i + 2)]>>
                  \o FindIter(s, FirstClose(s, i + 2) + 1)
         ELSE FindIter(s, i + 1)

\* match.group(0)
Group0(s, m) == SubSeq(s, m.first, m.last)

\* match.group(1)
Group1(s, m) == SubSeq(s, m.first + 2, m.last - 1)

\* The body of the loop over the matches: the matches are those of the original
\* value, the replacement is made in the current result.
RECURSIVE ResolveLoop(_, _, _, _, _)
ResolveLoop(result, original, matches, k, props) ==
    IF k > Len(matches) THEN result
    ELSE LET prop_name == Group1(original, matches[k])
         IN  IF prop_name \in DOMAIN props
             THEN ResolveLoop(Replace(result, Group0(original, matches[k]),
                                      Str(props[prop_name])),
                              original, matches, k + 1, props)
             ELSE ResolveLoop(result, original, matches, k + 1, props)

Resolve(val, props) ==
    IF DOMAIN props = {} THEN val
    ELSE IF ~Contains(val, <<"$", "{">>) THEN val
    ELSE ResolveLoop(val, val, FindIter(val, 1), 1, props)

----------------------------------------------------------------------------
(* _version_sort_key and sorted() *)

S_inherited == <<"i", "n", "h", "e", "r", "i", "t", "e", "d">>

\* The elements of a Python tuple used as a sort key: an int or a str.
IntEl(i) == [t |-> "int", n |-> i, s |-> <<>>]
StrEl(str) == [t |-> "str", n |-> 0, s |-> str]

\* version.split(".")
RECURSIVE SplitDots(_, _)
SplitDots(s, acc) ==
    IF s = <<>> THEN <<acc>>
    ELSE IF Head(s) = "." THEN <<acc>> \o SplitDots(Tail(s), <<>>)
    ELSE SplitDots(Tail(s), Append(acc, Head(s)))

\* part.isdigit()
IsDigit(part) == part /= <<>> /\ \A i \in 1..Len(part) : IsDigitChar(part[i])

\* int(digits) of a string of decimal digits
RECURSIVE ToInt(_, _)
ToInt(digits, acc) ==
    IF digits = <<>> THEN acc
    ELSE ToInt(Tail(digits), 10 * acc + DigitVal(Head(digits)))

\* The leading run of digits of part: the loop that breaks at the first non-digit.
RECURSIVE NumericPart(_)
NumericPart(part) ==
    IF part = <<>> THEN <<>>
    ELSE IF IsDigitChar(Head(part)) THEN <<Head(part)>> \o NumericPart(Tail(part))
    ELSE <<>>

PartNumber(part) ==
    IF IsDigit(part) THEN ToInt(part, 0)
    ELSE IF NumericPart(part) /= <<>> THEN ToInt(NumericPart(part), 0)
    ELSE 0

\* while len(parts) < 4: parts.append(0)
RECURSIVE PadParts(_)
PadParts(parts) == IF Len(parts) < 4 THEN PadParts(Append(parts, 0)) ELSE parts

VersionParts(version) ==
    LET split == SplitDots(version, <<>>)
    IN  PadParts([i \in 1..Len(split) |-> PartNumber(split[i])])

VersionSortKey(version) ==
    IF version = S_inherited \/ StartsWith(version, <<"$", "{">>)
    THEN <<IntEl(0), StrEl(version)>>
    ELSE IF Contains(version, <<".">>) /\ \E i \in 1..Len(version) : IsDigitChar(version[i])
    THEN LET parts == VersionParts(version)
         IN  <<IntEl(1)>> \o [i \in 1..Len(parts) |-> IntEl(parts[i])] \o <<StrEl(version)>>
    ELSE <<IntEl(0), StrEl(version)>>

\* x < y of two tuple elements: "T", "F", or "E" for the TypeError of comparing an int
\* with a str.
ElementLt(x, y) ==
    IF x.t /= y.t THEN "E"
    ELSE IF x.t = "int" THEN (IF x.n < y.n THEN "T" ELSE "F")
    ELSE (IF StrLt(x.s, y.s) THEN "T" ELSE "F")

\* x < y of two tuples: the first position where they differ decides; without one the
\* shorter tuple is smaller.
TupleLt(x, y) ==
    LET m == IF Len(x) < Len(y) THEN Len(x) ELSE Len(y)
        diff == {i \in 1..m : x[i] /= y[i]}
    IN  IF diff = {} THEN (IF Len(x) < Len(y) THEN "T" ELSE "F")
        ELSE LET i == CHOOSE j \in diff : \A k \in diff : j <= k
             IN  ElementLt(x[i], y[i])

\* list.sort of fewer than 64 items, each [key, item]: the leading run is counted
\* (and reversed when strictly descending), the rest is inserted by binary search.
\* Only key < key is used; a comparison that raises ends the sort.
ItemLt(a, b) == TupleLt(a.key, b.key)

Reverse(seq) == [i \in 1..Len(seq) |-> seq[Len(seq) + 1 - i]]

\* The last index of the run that starts at 1 and reaches i so far; 0 when a
\* comparison raises.
RECURSIVE RunEnd(_, _, _)
RunEnd(a, i, descending) ==
    IF i = Len(a) THEN i
    ELSE LET c == ItemLt(a[i + 1], a[i])
         IN  IF c = "E" THEN 0
             ELSE IF (c = "T") = descending THEN RunEnd(a, i + 1, descending)
             ELSE i

\* The position in a[1 .. r-1] where pivot is inserted; 0 when a comparison raises.
RECURSIVE BinarySearch(_, _, _, _)
BinarySearch(a, pivot, l, r) ==
    IF l >= r THEN l
    ELSE LET p == l + ((r - l) \div 2)
             c == ItemLt(pivot, a[p])
         IN  IF c = "E" THEN 0
             ELSE IF c = "T" THEN BinarySearch(a, pivot, l, p)
             ELSE BinarySearch(a, pivot, p + 1, r)

SortRaised == [ok |-> FALSE, seq |-> <<>>]

RECURSIVE BinarySort(_, _)
BinarySort(a, start) ==
    IF start > Len(a) THEN [ok |-> TRUE, seq |-> a]
    ELSE LET pos == BinarySearch(a, a[start], 1, start)
         IN  IF pos = 0 THEN SortRaised
             ELSE BinarySort(SubSeq(a, 1, pos - 1) \o <<a[start]>>
                                 \o SubSeq(a, pos, start - 1)
                                 \o SubSeq(a, start + 1, Len(a)),
                             start + 1)

SortItems(a) ==
    IF Len(a) < 2 THEN [ok |-> TRUE, seq |-> a]
    ELSE LET first == ItemLt(a[2], a[1])
         IN  IF first = "E" THEN SortRaised
             ELSE LET run == RunEnd(a, 2, first = "T")
                  IN  IF run = 0 THEN SortRaised
                      ELSE BinarySort(
                               (IF first = "T" THEN Reverse(SubSeq(a, 1, run))
                                ELSE SubSeq(a, 1, run)) \o SubSeq(a, run + 1, Len(a)),
                               run + 1)

Items(sorted) == [i \in 1..Len(sorted.seq) |-> sorted.seq[i].item]

\* sorted(strings)
SortedStrings(strs) ==
    Items(SortItems([i \in 1..Len(strs) |-> [key |-> <<StrEl(strs[i])>>, item |-> strs[i]]]))

\* sorted(keys, key=_version_sort_key): [ok, seq], ok false when the sort raised
SortedByVersion(keys) ==
    LET res == SortItems([i \in 1..Len(keys) |->
                             [key |-> VersionSortKey(keys[i]), item |-> keys[i]]])
    IN  [ok |-> res.ok, seq |-> Items(res)]

----------------------------------------------------------------------------
(* The data model: GavInfo, DependencyInfo, ParentInfo, PomInfo *)

GavInfo(group_id, artifact_id, version) ==
    [group_id |-> group_id, artifact_id |-> artifact_id, version |-> version]

DependencyInfo(group_id, artifact_id, version) ==
    [gav |-> GavInfo(group_id, artifact_id, version), scope |-> None]

ParentInfo(group_id, artifact_id, version) ==
    [gav |-> GavInfo(group_id, artifact_id, version), relative_path |-> None]

\* The keys of a mapping in ascending order.
KeyOrder(props) ==
    CHOOSE s \in [1..Cardinality(DOMAIN props) -> DOMAIN props] :
        /\ Range(s) = DOMAIN props
        /\ \A i \in 1..(Len(s) - 1) : StrLt(s[i], s[i + 1])

\* properties is a dict: the mapping and, in property_names, its keys in the order
\* of the document.  PomInfo lists the keys in ascending order; WithPropertyNames
\* gives the same PomInfo with its properties in another order.
PomInfo(gav, packaging, parent, props, dependencies, managed_dependencies) ==
    [gav |-> gav, packaging |-> packaging, parent |-> parent, properties |-> props,
     property_names |-> KeyOrder(props),
     dependencies |-> dependencies, managed_dependencies |-> managed_dependencies]

WithPropertyNames(p, names) == [p EXCEPT !.property_names = names]

----------------------------------------------------------------------------
(* Containers.  A dict is the sequence of its [k, v] items in insertion order, *)
(* with its type as kind; a set is a set of strings; a list is a sequence.    *)

DefaultDict(items) == [kind |-> "defaultdict", items |-> items]
Dict(items) == [kind |-> "dict", items |-> items]
SetOf(members) == [kind |-> "set", members |-> members]
ListOf(elems) == [kind |-> "list", elems |-> elems]

\* The exception that leaves prepare_for_serialization when a sort raises.
Raised == [kind |-> "raised"]

IsDictLike(obj) == obj.kind \in {"defaultdict", "dict"}

Keys(d) == [i \in 1..Len(d.items) |-> d.items[i].k]

HasKey(d, key) == \E i \in 1..Len(d.items) : d.items[i].k = key

Get(d, key) == d.items[CHOOSE i \in 1..Len(d.items) : d.items[i].k = key].v

\* d[key] = val: an existing key keeps its position, a new key is appended.
Put(d, key, val) ==
    IF HasKey(d, key)
    THEN [d EXCEPT !.items =
             [i \in 1..Len(d.items) |->
                 IF d.items[i].k = key THEN [k |-> key, v |-> val] ELSE d.items[i]]]
    ELSE [d EXCEPT !.items = Append(d.items, [k |-> key, v |-> val])]

----------------------------------------------------------------------------
(* make_group_dict, _process_dependencies, _resolve_version, create_dict *)

S_unknown == <<"u", "n", "k", "n", "o", "w", "n">>

make_group_dict == DefaultDict(<<>>)

\* Mutant of MatrixAdd: the project set is replaced instead of extended.
MatrixAdd_Overwrite(m, group_id, artifact_id, version, project_name) ==
    LET artifacts == IF HasKey(m, group_id) THEN Get(m, group_id) ELSE DefaultDict(<<>>)
        vers == IF HasKey(artifacts, artifact_id) THEN Get(artifacts, artifact_id)
                ELSE DefaultDict(<<>>)
    IN  Put(m, group_id,
            Put(artifacts, artifact_id, Put(vers, version, SetOf({project_name}))))

\* matrix[group_id][artifact_id][version].add(project_name); a missing level is
\* created by the defaultdict.
MatrixAdd(m, group_id, artifact_id, version, project_name) ==
    LET artifacts == IF HasKey(m, group_id) THEN Get(m, group_id) ELSE DefaultDict(<<>>)
        vers == IF HasKey(artifacts, artifact_id) THEN Get(artifacts, artifact_id)
                ELSE DefaultDict(<<>>)
        projects == IF HasKey(vers, version) THEN Get(vers, version) ELSE SetOf({})
    IN  Put(m, group_id,
            Put(artifacts, artifact_id,
                Put(vers, version, SetOf(projects.members \cup {project_name}))))

\* Mutant of ResolveVersion: the declared version is used without resolution.
ResolveVersion_Unresolved(dep, pom) ==
    IF ~Truthy(dep.gav.version) THEN S_inherited ELSE dep.gav.version

ResolveVersion(dep, pom) ==
    IF ~Truthy(dep.gav.version) THEN S_inherited
    ELSE Resolve(dep.gav.version, pom.properties)

RECURSIVE ProcessFrom(_, _, _, _)
ProcessFrom(dependencies, k, pom, m) ==
    IF k > Len(dependencies) THEN m
    ELSE LET dep == dependencies[k]
         IN  IF ~Truthy(dep.gav.group_id) \/ ~Truthy(dep.gav.artifact_id)
             THEN ProcessFrom(dependencies, k + 1, pom, m)
             ELSE ProcessFrom(dependencies, k + 1, pom,
                              MatrixAdd(m, dep.gav.group_id, dep.gav.artifact_id,
                                        ResolveVersion(dep, pom),
                                        IF Truthy(pom.gav.artifact_id)
                                        THEN pom.gav.artifact_id ELSE S_unknown))

ProcessDependencies(dependencies, pom, m) ==
    IF dependencies = <<>> THEN m ELSE ProcessFrom(dependencies, 1, pom, m)

\* One iteration of the loop of create_dict: the direct, then the managed dependencies.
CreateDictStep(m, pom) ==
    ProcessDependencies(pom.managed_dependencies, pom,
                        ProcessDependencies(pom.dependencies, pom, m))

RECURSIVE CreateDictFrom(_, _, _)
CreateDictFrom(poms, k, m) ==
    IF k > Len(poms) THEN m
    ELSE CreateDictFrom(poms, k + 1, CreateDictStep(m, poms[k]))

create_dict(poms) == CreateDictFrom(poms, 1, make_group_dict)

----------------------------------------------------------------------------
(* prepare_for_serialization *)

RECURSIVE SetToSeq(_)
SetToSeq(S) ==
    IF S = {} THEN <<>>
    ELSE LET x == CHOOSE y \in S : TRUE IN <<x>> \o SetToSeq(S \ {x})

\* any(isinstance(v, set) for v in value.values())
AnySetValue(d) == \E i \in 1..Len(d.items) : d.items[i].v.kind = "set"

\* Mutant of AnyListValue: a plain dict is taken for the version level only when its
\* values are sets, as for a defaultdict.
AnyListValue_ChecksSets(d) == \E i \in 1..Len(d.items) : d.items[i].v.kind = "set"

\* any(isinstance(v, list) for v in value.values())
AnyListValue(d) == \E i \in 1..Len(d.items) : d.items[i].v.kind = "list"

\* dict(sorted(result.items())): the keys are distinct strings, so the comparison of
\* two items is decided by their keys.
SortedByKey(items) ==
    Items(SortItems([i \in 1..Len(items) |->
                        [key |-> <<StrEl(items[i].k)>>, item |-> items[i]]]))

\* dict(sorted(result.items(), key=lambda x: _version_sort_key(x[0])))
SortedByVersionKey(items) ==
    LET res == SortItems([i \in 1..Len(items) |->
                             [key |-> VersionSortKey(items[i].k), item |-> items[i]]])
    IN  IF res.ok THEN Dict(Items(res)) ELSE Raised

RECURSIVE prepare_for_serialization(_, _)
prepare_for_serialization(obj, is_version_level) ==
    IF IsDictLike(obj)
    THEN LET Prepared(val) ==
                 IF val.kind = "defaultdict"
                 THEN prepare_for_serialization(val, AnySetValue(val))
                 ELSE IF val.kind = "dict" /\ obj.kind = "dict"
                 THEN prepare_for_serialization(val, AnyListValue(val))
                 ELSE IF val.kind = "set"
                 THEN ListOf(SortedStrings(SetToSeq(val.members)))
                 ELSE IF val.kind = "list"
                 THEN ListOf(SortedStrings(val.elems))
                 ELSE prepare_for_serialization(val, FALSE)
             result == [i \in 1..Len(obj.items) |->
                           [k |-> obj.items[i].k, v |-> Prepared(obj.items[i].v)]]
         IN  IF \E i \in 1..Len(result) : result[i].v.kind = "raised" THEN Raised
             ELSE IF is_version_level THEN SortedByVersionKey(result)
             ELSE Dict(SortedByKey(result))
    ELSE IF obj.kind = "set" THEN ListOf(SortedStrings(SetToSeq(obj.members)))
    ELSE obj

----------------------------------------------------------------------------
(* Idle values of the variables a specification does not use *)

ResolverIdle ==
    /\ value = <<>>
    /\ properties = <<>>
    /\ resolved = None
    /\ rpc = "idle"

VersionsIdle ==
    /\ versions = <<>>
    /\ sorted_versions = None
    /\ vpc = "idle"

MatrixIdle ==
    /\ pi = 0
    /\ matrix = None
    /\ serialized = None
    /\ reserialized = None
    /\ mpc = "idle"

\* No exception is propagating.
NoExc == [type |-> "none", text |-> "", path |-> 0, cause |-> ""]

BatchIdle ==
    /\ files = <<>>
    /\ pom_files = <<>>
    /\ fi = 0
    /\ fpc = "idle"
    /\ exc = NoExc
    /\ opened = {}
    /\ attempts = <<>>
    /\ failed_files = <<>>
    /\ ret = None

ValidateIdle ==
    /\ cur_pom = None
    /\ cur_file = 0
    /\ issues = <<>>
    /\ check = "idle"

AnalyzeIdle ==
    /\ validate = FALSE
    /\ zi = 0
    /\ all_issues = <<>>
    /\ status = None

----------------------------------------------------------------------------
(* Specification of the property resolver: resolve applied to a text and a   *)
(* property mapping.                                                         *)

\* The pieces the texts are built from: placeholders of the keys a and b, a
\* placeholder of no key, and fragments of placeholders.
Tokens ==
    { <<"$", "{", "a", "}">>, <<"$", "{", "b", "}">>, <<"$", "{", "z", "}">>,
      <<"$">>, <<"{", "b", "}">>, <<"$", "{">>, <<"-">> }

RECURSIVE Flatten(_)
Flatten(ts) == IF ts = <<>> THEN <<>> ELSE Head(ts) \o Flatten(Tail(ts))

Texts == {Flatten(ts) : ts \in UNION {[1..n -> Tokens] : n \in 0..MaxTokens}}

PropertyKeys == { <<"a">>, <<"b">> }

PropertyValues ==
    { <<"1">>, <<"X">>, <<"$">>, <<>>, <<"$", "{", "b", "}">>, <<"$", "{", "a", "}">> }

PropertyMaps == UNION {[D -> PropertyValues] : D \in SUBSET PropertyKeys}

InitResolve ==
    /\ value \in Texts
    /\ properties \in PropertyMaps
    /\ resolved = None
    /\ rpc = "call"
    /\ VersionsIdle
    /\ pom_list = <<>>
    /\ MatrixIdle
    /\ BatchIdle
    /\ ValidateIdle
    /\ AnalyzeIdle

ResolveCall ==
    /\ rpc = "call"
    /\ resolved' = Resolve(value, properties)
    /\ rpc' = "done"
    /\ UNCHANGED <<value, properties, versionVars, pom_list, matrixVars, batchVars,
                   validateVars, analyzeVars>>

NextResolve == ResolveCall

SpecResolve == InitResolve /\ [][NextResolve]_vars

\* The text with every placeholder occurrence of the original text substituted in
\* place, once: the text between the occurrences is kept, an occurrence whose name is
\* a key becomes the key's value and any other occurrence is kept.
RECURSIVE SubstituteFrom(_, _, _, _, _)
SubstituteFrom(s, matches, k, pos, props) ==
    IF k > Len(matches) THEN SubSeq(s, pos, Len(s))
    ELSE LET m == matches[k]
             name == SubSeq(s, m.first + 2, m.last - 1)
             piece == IF name \in DOMAIN props
                      THEN Str(props[name])
                      ELSE SubSeq(s, m.first, m.last)
         IN  SubSeq(s, pos, m.first - 1) \o piece
                 \o SubstituteFrom(s, matches, k + 1, m.last + 1, props)

SubstitutedOnce(s, props) == SubstituteFrom(s, FindIter(s, 1), 1, 1, props)

NoPlaceholderInValues(props) ==
    \A k \in DOMAIN props : ~Contains(props[k], <<"$", "{">>)

\* The placeholder ${k} of a key k
Placeholder(k) == <<"$", "{">> \o k \o <<"}">>

\* The text with every place where the placeholder of a key stands replaced by the
\* key's value, scanning left to right, also inside a longer occurrence of the
\* pattern whose name is no key.
RECURSIVE ReplacedEverywhere(_, _, _)
ReplacedEverywhere(s, i, props) ==
    IF i > Len(s) THEN <<>>
    ELSE IF \E k \in DOMAIN props : OccursAt(s, Placeholder(k), i)
    THEN LET k == CHOOSE key \in DOMAIN props : OccursAt(s, Placeholder(key), i)
         IN  Str(props[k]) \o ReplacedEverywhere(s, i + Len(Placeholder(k)), props)
    ELSE <<s[i]>> \o ReplacedEverywhere(s, i + 1, props)

\* C1: resolve never re-scans replacement text: the result is the original text with
\* each of its placeholder occurrences substituted once, so a placeholder that enters
\* only through a property value stays literally in the result.
C1_NoRescan ==
    rpc = "done" => resolved = SubstitutedOnce(value, properties)

\* C2: when no property value contains "${", resolve returns the text with every
\* placeholder of a key replaced by the key's value and every other placeholder
\* untouched; a text without "${" or an empty mapping is returned unchanged.  An
\* occurrence of ${name} is read either as a match of the pattern or as any place of
\* the text where the placeholder of a key stands.
C2_SubstitutesKeys ==
    (rpc = "done" /\ NoPlaceholderInValues(properties)) =>
        /\ \/ resolved = SubstitutedOnce(value, properties)
           \/ resolved = ReplacedEverywhere(value, 1, properties)
        /\ (DOMAIN properties = {} \/ ~Contains(value, <<"$", "{">>)) => resolved = value

----------------------------------------------------------------------------
(* Specification of the version ordering: the keys of one version level, in  *)
(* insertion order, sorted by _version_sort_key.                             *)

V_rev == <<"$", "{", "r", "e", "v", "}">>
V_2_0_0 == <<"2", ".", "0", ".", "0">>
V_1_10_0 == <<"1", ".", "1", "0", ".", "0">>
V_1_9_0 == <<"1", ".", "9", ".", "0">>
V_1_2_3_4 == <<"1", ".", "2", ".", "3", ".", "4">>
V_1_2_3_4_5 == <<"1", ".", "2", ".", "3", ".", "4", ".", "5">>
V_20_SNAPSHOT == <<"2", "0", "-", "S", "N", "A", "P", "S", "H", "O", "T">>
V_1_2 == <<"1", ".", "2">>
V_1_2_0_rc == <<"1", ".", "2", ".", "0", "-", "r", "c">>
V_1_x == <<"1", ".", "x">>

VersionPool ==
    { S_inherited, V_rev, V_2_0_0, V_1_10_0, V_1_9_0, V_1_2_3_4, V_1_2_3_4_5,
      V_20_SNAPSHOT, V_1_2, V_1_2_0_rc, V_1_x }

\* The unordered version strings of the specification's example.
ExampleVersions == <<V_rev, S_inherited, V_2_0_0, V_1_10_0, V_1_9_0>>

Injective(seq) == \A i, j \in DOMAIN seq : seq[i] = seq[j] => i = j

VersionLists ==
    {vs \in UNION {[1..n -> VersionPool] : n \in 0..MaxVersions} : Injective(vs)}
        \cup {ExampleVersions}

InitVersions ==
    /\ versions \in VersionLists
    /\ sorted_versions = None
    /\ vpc = "sort"
    /\ ResolverIdle
    /\ pom_list = <<>>
    /\ MatrixIdle
    /\ BatchIdle
    /\ ValidateIdle
    /\ AnalyzeIdle

SortVersions ==
    /\ vpc = "sort"
    /\ sorted_versions' = SortedByVersion(versions)
    /\ vpc' = "done"
    /\ UNCHANGED <<versions, resolverVars, pom_list, matrixVars, batchVars,
                   validateVars, analyzeVars>>

NextVersions == SortVersions

SpecVersions == InitVersions /\ [][NextVersions]_vars

\* C3: the version ordering is total and deterministic: sorting any set of version
\* keys by _version_sort_key completes without error, and any two distinct keys are
\* strictly ordered, one way only.
C3_TotalOrder ==
    vpc = "done" =>
        /\ sorted_versions.ok
        /\ \A i, j \in DOMAIN versions :
               i /= j =>
                   LET a == TupleLt(VersionSortKey(versions[i]), VersionSortKey(versions[j]))
                       b == TupleLt(VersionSortKey(versions[j]), VersionSortKey(versions[i]))
                   IN  (a = "T" /\ b = "F") \/ (a = "F" /\ b = "T")

\* The order the specification states for the version level.
DottedNumeric(v) == Contains(v, <<".">>) /\ \E i \in 1..Len(v) : IsDigitChar(v[i])

LexicographicFirst(v) ==
    v = S_inherited \/ StartsWith(v, <<"$", "{">>) \/ ~DottedNumeric(v)

RECURSIVE IntSeqLt(_, _)
IntSeqLt(x, y) ==
    IF y = <<>> THEN FALSE
    ELSE IF x = <<>> THEN TRUE
    ELSE IF Head(x) = Head(y) THEN IntSeqLt(Tail(x), Tail(y))
    ELSE Head(x) < Head(y)

StatedBefore(x, y) ==
    IF LexicographicFirst(x) /\ LexicographicFirst(y) THEN StrLt(x, y)
    ELSE IF LexicographicFirst(x) THEN TRUE
    ELSE IF LexicographicFirst(y) THEN FALSE
    ELSE \/ IntSeqLt(VersionParts(x), VersionParts(y))
         \/ VersionParts(x) = VersionParts(y) /\ StrLt(x, y)

\* C4: the version level is emitted with "inherited", the keys beginning with "${"
\* and the keys that are not dotted-numeric first, in lexicographic order, followed
\* by the dotted-numeric keys in ascending order of their integer components (padded
\* to four), ties broken by the string; the example list is emitted as
\* ["${rev}", "inherited", "1.9.0", "1.10.0", "2.0.0"].
C4_VersionLevelOrder ==
    vpc = "done" =>
        /\ sorted_versions.ok
        /\ Len(sorted_versions.seq) = Len(versions)
        /\ Range(sorted_versions.seq) = Range(versions)
        /\ \A i, j \in DOMAIN sorted_versions.seq :
               i < j => StatedBefore(sorted_versions.seq[i], sorted_versions.seq[j])
        /\ versions = ExampleVersions =>
               sorted_versions.seq = <<V_rev, S_inherited, V_1_9_0, V_1_10_0, V_2_0_0>>

----------------------------------------------------------------------------
(* Specification of the aggregation and the serialization: create_dict over  *)
(* a list of PomInfo, one iteration per step, then prepare_for_serialization *)
(* of the matrix and of its own result.                                      *)

S_app == <<"a", "p", "p">>
S_lib == <<"l", "i", "b">>
S_svc == <<"s", "v", "c">>
S_web == <<"w", "e", "b">>
S_core == <<"c", "o", "r", "e">>
S_com_foo == <<"c", "o", "m", ".", "f", "o", "o">>
S_abc == <<"a", "b", "c">>
S_bar == <<"b", "a", "r">>
S_baz == <<"b", "a", "z">>
S_jar == <<"j", "a", "r">>
S_pom == <<"p", "o", "m">>
K_v == <<"v">>
K_w == <<"w">>
V_ref_v == <<"$", "{", "v", "}">>
V_ref_w == <<"$", "{", "w", "}">>
V_1_0 == <<"1", ".", "0">>
V_2_0 == <<"2", ".", "0">>
V_1_2_0_0_0 == <<"1", ".", "2", ".", "0", ".", "0", ".", "0">>

NoProperties == [k \in {} |-> <<>>]

\* app declares com.foo:bar:${v} with v = 1.0
P_app ==
    PomInfo(GavInfo(S_com_foo, S_app, V_1_0), S_jar, None,
            [k \in {K_v} |-> V_1_0],
            <<DependencyInfo(S_com_foo, S_bar, V_ref_v)>>, <<>>)

\* lib declares com.foo:bar:2.0
P_lib ==
    PomInfo(GavInfo(S_com_foo, S_lib, V_1_0), S_jar, None, NoProperties,
            <<DependencyInfo(S_com_foo, S_bar, V_2_0)>>, <<>>)

\* svc declares ${v} without defining v, a dependency without version, and one
\* coordinate both directly and as managed
P_svc ==
    PomInfo(GavInfo(None, S_svc, None), S_jar, ParentInfo(S_com_foo, S_core, V_1_0),
            NoProperties,
            <<DependencyInfo(S_com_foo, S_bar, V_ref_v),
              DependencyInfo(S_com_foo, S_baz, None)>>,
            <<DependencyInfo(S_com_foo, S_bar, V_ref_v)>>)

\* a POM without artifact id, with a dependency that has no group id
P_anon ==
    PomInfo(GavInfo(None, None, None), S_pom, None,
            [k \in {K_v, K_w} |-> IF k = K_v THEN V_1_9_0 ELSE V_1_10_0],
            <<DependencyInfo(S_com_foo, S_bar, V_ref_v),
              DependencyInfo(None, S_bar, V_1_0)>>,
            <<DependencyInfo(S_com_foo, S_bar, V_ref_w)>>)

\* a second POM named app, with its own value of v and a dependency without
\* artifact id
P_app2 ==
    PomInfo(GavInfo(S_abc, S_app, V_2_0), S_jar, None,
            [k \in {K_v} |-> V_2_0_0],
            <<DependencyInfo(S_abc, S_bar, V_ref_v),
              DependencyInfo(S_com_foo, None, V_1_0)>>, <<>>)

\* versions 1.2 and 1.2.0.0.0 of one artifact
P_web ==
    PomInfo(GavInfo(S_com_foo, S_web, V_1_0), S_jar, None, NoProperties,
            <<DependencyInfo(S_com_foo, S_bar, V_1_2)>>,
            <<DependencyInfo(S_com_foo, S_bar, V_1_2_0_0_0)>>)

\* core shares com.foo:bar:2.0 with lib
P_core ==
    PomInfo(GavInfo(S_com_foo, S_core, V_1_0), S_pom, None, NoProperties,
            <<DependencyInfo(S_abc, S_lib, V_1_10_0),
              DependencyInfo(S_abc, S_lib, V_1_9_0),
              DependencyInfo(S_abc, S_bar, None),
              DependencyInfo(S_com_foo, S_bar, V_2_0)>>, <<>>)

PomPool == {P_app, P_lib, P_svc, P_anon, P_app2, P_web, P_core}

PomLists == UNION {[1..n -> PomPool] : n \in 0..MaxPoms}

InitMatrix ==
    /\ pom_list \in PomLists
    /\ pi = 1
    /\ matrix = make_group_dict
    /\ serialized = None
    /\ reserialized = None
    /\ mpc = "fold"
    /\ ResolverIdle
    /\ VersionsIdle
    /\ BatchIdle
    /\ ValidateIdle
    /\ AnalyzeIdle

\* for pom in pom_list: one iteration
ProcessPom ==
    /\ mpc = "fold"
    /\ pi <= Len(pom_list)
    /\ matrix' = CreateDictStep(matrix, pom_list[pi])
    /\ pi' = pi + 1
    /\ UNCHANGED <<mpc, serialized, reserialized, pom_list, resolverVars, versionVars,
                   batchVars, validateVars, analyzeVars>>

\* return matrix
ReturnMatrix ==
    /\ mpc = "fold"
    /\ pi > Len(pom_list)
    /\ mpc' = "created"
    /\ UNCHANGED <<pi, matrix, serialized, reserialized, pom_list, resolverVars,
                   versionVars, batchVars, validateVars, analyzeVars>>

\* serializable_data = prepare_for_serialization(data); serialized is Raised when the
\* call raises
Serialize ==
    /\ mpc = "created"
    /\ serialized' = prepare_for_serialization(matrix, FALSE)
    /\ mpc' = "serialized"
    /\ UNCHANGED <<pi, matrix, reserialized, pom_list, resolverVars, versionVars,
                   batchVars, validateVars, analyzeVars>>

\* prepare_for_serialization(prepare_for_serialization(matrix)): the outer call is
\* made with the result of the inner one; an exception of the inner call propagates.
Reserialize ==
    /\ mpc = "serialized"
    /\ reserialized' = IF serialized.kind = "raised" THEN serialized
                       ELSE prepare_for_serialization(serialized, FALSE)
    /\ mpc' = "reserialized"
    /\ UNCHANGED <<pi, matrix, serialized, pom_list, resolverVars, versionVars,
                   batchVars, validateVars, analyzeVars>>

NextMatrix == ProcessPom \/ ReturnMatrix \/ Serialize \/ Reserialize

SpecMatrix == InitMatrix /\ [][NextMatrix]_vars

----------------------------------------------------------------------------
(* Properties of the aggregation and the serialization *)

\* The content of a container without its order: a dict as the set of its
\* <<key, content>> pairs, a set or a list as the set of its members.
RECURSIVE Content(_)
Content(obj) ==
    IF IsDictLike(obj)
    THEN {<<obj.items[i].k, Content(obj.items[i].v)>> : i \in 1..Len(obj.items)}
    ELSE IF obj.kind = "set" THEN obj.members
    ELSE Range(obj.elems)

Ascending(strs) == \A i, j \in 1..Len(strs) : i < j => StrLt(strs[i], strs[j])

\* C5: serialization is idempotent: prepare_for_serialization of its own result is
\* that result, in content and in the order of the keys and elements of all levels.
C5_Idempotent ==
    mpc = "reserialized" => reserialized = serialized

\* A serialized matrix with a version level whose version order is not the
\* lexicographic order of its keys has been serialized again.
C5_Witness ==
    /\ mpc = "reserialized"
    /\ serialized.kind = "dict"
    /\ \E g \in 1..Len(serialized.items) :
           \E a \in 1..Len(serialized.items[g].v.items) :
               LET ks == Keys(serialized.items[g].v.items[a].v)
               IN  \E i, j \in 1..Len(ks) : i < j /\ StrLt(ks[j], ks[i])

\* C6: prepare_for_serialization returns, for every matrix of create_dict, a structure
\* whose leaves are ascending sequences of exactly the members of the sets, without
\* duplicates, and whose group and artifact levels hold exactly the original keys in
\* ascending order.
C6_SortedLevels ==
    mpc = "serialized" =>
        /\ serialized.kind = "dict"
        /\ Ascending(Keys(serialized))
        /\ Range(Keys(serialized)) = Range(Keys(matrix))
        /\ \A g \in Range(Keys(matrix)) :
               LET arts == Get(serialized, g)
               IN  /\ Ascending(Keys(arts))
                   /\ Range(Keys(arts)) = Range(Keys(Get(matrix, g)))
                   /\ \A a \in Range(Keys(arts)) :
                          LET vers == Get(arts, a)
                          IN  /\ Range(Keys(vers)) = Range(Keys(Get(Get(matrix, g), a)))
                              /\ \A v \in Range(Keys(vers)) :
                                     /\ Get(vers, v).kind = "list"
                                     /\ Ascending(Get(vers, v).elems)
                                     /\ Range(Get(vers, v).elems)
                                            = Get(Get(Get(matrix, g), a), v).members

Reorderings(seq) ==
    {[i \in 1..Len(seq) |-> seq[f[i]]] :
        f \in {g \in [1..Len(seq) -> 1..Len(seq)] : Injective(g)}}

\* The list without the later occurrences of a PomInfo that occurs more than once.
RECURSIVE WithoutRepeats(_)
WithoutRepeats(seq) ==
    IF seq = <<>> THEN <<>>
    ELSE LET init == SubSeq(seq, 1, Len(seq) - 1)
             last == seq[Len(seq)]
         IN  IF last \in Range(init) THEN WithoutRepeats(init)
             ELSE Append(WithoutRepeats(init), last)

\* The PomInfo without the managed dependencies that it also declares directly.
WithoutManagedRepeats(pom) ==
    [pom EXCEPT !.managed_dependencies =
        SelectSeq(pom.managed_dependencies, LAMBDA d : d \notin Range(pom.dependencies))]

\* C7: the matrix does not depend on the order of the list: every permutation of the
\* list gives the same groups, artifacts, versions and project sets; a PomInfo that
\* occurs twice, or that declares one coordinate directly and as managed, adds its
\* project name once.
C7_OrderIndependent ==
    mpc = "created" =>
        /\ \A q \in Reorderings(pom_list) : Content(create_dict(q)) = Content(matrix)
        /\ Content(create_dict(WithoutRepeats(pom_list))) = Content(matrix)
        /\ Content(create_dict([i \in 1..Len(pom_list) |->
                                   WithoutManagedRepeats(pom_list[i])]))
               = Content(matrix)

\* A matrix has been created from a list that holds a PomInfo twice and two projects
\* of one coordinate, and another order of the list inserts the keys in another
\* order.
C7_Witness ==
    /\ mpc = "created"
    /\ ~Injective(pom_list)
    /\ \E q \in Reorderings(pom_list) : create_dict(q) /= matrix
    /\ \E g \in 1..Len(matrix.items) :
           \E a \in 1..Len(matrix.items[g].v.items) :
               \E v \in 1..Len(matrix.items[g].v.items[a].v.items) :
                   Cardinality(matrix.items[g].v.items[a].v.items[v].v.members) > 1

\* The <<group, artifact, version, project>> entries of a matrix.
Entries(m) ==
    UNION {UNION {UNION {{<<m.items[g].k, m.items[g].v.items[a].k,
                            m.items[g].v.items[a].v.items[v].k, p>> :
                             p \in m.items[g].v.items[a].v.items[v].v.members} :
                         v \in 1..Len(m.items[g].v.items[a].v.items)} :
                  a \in 1..Len(m.items[g].v.items)} :
           g \in 1..Len(m.items)}

\* The entries the PomInfo D declares: for each direct or managed dependency with a
\* group id and an artifact id, under "inherited" when it declares no version and
\* else under its version resolved against the properties of D.
DeclaredEntries(D) ==
    {<<d.gav.group_id, d.gav.artifact_id,
       IF d.gav.version = None THEN S_inherited
       ELSE Resolve(d.gav.version, D.properties),
       IF D.gav.artifact_id = None THEN S_unknown ELSE D.gav.artifact_id>> :
        d \in {e \in Range(D.dependencies) \cup Range(D.managed_dependencies) :
                  e.gav.group_id /= None /\ e.gav.artifact_id /= None}}

\* C8: after create_dict, project p is in matrix[g][a][v] exactly when some PomInfo
\* of the list named p declares g:a, directly or as managed, with resolved version v;
\* app with com.foo:bar:${v}, v = 1.0, and lib with com.foo:bar:2.0 give
\* {"1.0": {app}, "2.0": {lib}}.
C8_MatrixEntries ==
    mpc = "created" =>
        /\ Entries(matrix) = UNION {DeclaredEntries(pom_list[i]) : i \in 1..Len(pom_list)}
        /\ pom_list = <<P_app, P_lib>> =>
               Content(matrix) =
                   {<<S_com_foo, {<<S_bar, {<<V_1_0, {S_app}>>, <<V_2_0, {S_lib}>>}>>}>>}

\* The matrix of app, lib and a POM that uses ${v} without defining it has been
\* created.
C8_Witness ==
    /\ mpc = "created"
    /\ P_app \in Range(pom_list)
    /\ P_svc \in Range(pom_list)
    /\ <<S_com_foo, S_bar, V_1_0, S_app>> \in Entries(matrix)
    /\ <<S_com_foo, S_bar, V_ref_v, S_svc>> \in Entries(matrix)
    /\ <<S_com_foo, S_baz, S_inherited, S_svc>> \in Entries(matrix)

----------------------------------------------------------------------------
(* Specification of the batch: the loop of _process_pom_files over the POM   *)
(* files found, with process_pom and PomParser.from_file of each file, one   *)
(* step of from_file per action.                                             *)

T_project == <<"p", "r", "o", "j", "e", "c", "t">>
T_ns_project == <<"{", "m", "}", "p", "r", "o", "j", "e", "c", "t">>
T_settings == <<"s", "e", "t", "t", "i", "n", "g", "s">>

\* What is found at a path: whether it exists, can be read and is a directory,
\* whether its content is well-formed XML, the tag of its root element and the
\* PomInfo its sections parse to.
File(exists, readable, directory, wellformed, root_tag, pom) ==
    [exists |-> exists, readable |-> readable, directory |-> directory,
     wellformed |-> wellformed, root_tag |-> root_tag, pom |-> pom]

F_missing == File(FALSE, FALSE, FALSE, FALSE, T_project, P_app)
F_unreadable == File(TRUE, FALSE, FALSE, TRUE, T_project, P_app)
F_directory == File(TRUE, TRUE, TRUE, FALSE, T_project, P_app)
F_malformed == File(TRUE, TRUE, FALSE, FALSE, T_project, P_app)
F_settings == File(TRUE, TRUE, FALSE, TRUE, T_settings, P_app)
F_app == File(TRUE, TRUE, FALSE, TRUE, T_project, P_app)
F_lib == File(TRUE, TRUE, FALSE, TRUE, T_ns_project, P_lib)

FilePool == {F_missing, F_unreadable, F_directory, F_malformed, F_settings, F_app, F_lib}

\* An exception: its type, and its message as text, file path and, for an exception
\* raised in a handler, the message of the exception handled.
Exc(type, text, path, cause) == [type |-> type, text |-> text, path |-> path, cause |-> cause]

\* find_pom_files returns the paths sorted; the paths are 1, 2, ...
InitBatch ==
    /\ \E n \in 0..MaxFiles :
           /\ files \in [1..n -> FilePool]
           /\ pom_files = [i \in 1..n |-> i]
    /\ fi = 1
    /\ fpc = "start"
    /\ exc = NoExc
    /\ opened = {}
    /\ attempts = <<>>
    /\ failed_files = <<>>
    /\ ret = None
    /\ pom_list = <<>>
    /\ ResolverIdle
    /\ VersionsIdle
    /\ MatrixIdle
    /\ ValidateIdle
    /\ AnalyzeIdle

restOfBatch ==
    <<files, pom_files, resolverVars, versionVars, matrixVars, validateVars,
      analyzeVars>>

\* if not pom_files: return [], []
NoFiles ==
    /\ fpc = "start"
    /\ pom_files = <<>>
    /\ ret' = [pom_files |-> <<>>, pom_list |-> <<>>]
    /\ fpc' = "done"
    /\ UNCHANGED <<fi, exc, opened, attempts, failed_files, pom_list, restOfBatch>>

\* pom_list = []; failed_files = []
StartLoop ==
    /\ fpc = "start"
    /\ pom_files /= <<>>
    /\ fpc' = "loop"
    /\ UNCHANGED <<fi, exc, opened, attempts, failed_files, ret, pom_list, restOfBatch>>

\* for pom_file in pom_files: process_pom(pom_file) calls PomParser.from_file
CallProcessPom ==
    /\ fpc = "loop"
    /\ fi <= Len(pom_files)
    /\ attempts' = Append(attempts, pom_files[fi])
    /\ fpc' = "exists"
    /\ UNCHANGED <<fi, exc, opened, failed_files, ret, pom_list, restOfBatch>>

\* if not os.path.exists(file_path): raise FileNotFoundError
CheckExists ==
    /\ fpc = "exists"
    /\ IF files[pom_files[fi]].exists
       THEN fpc' = "access" /\ exc' = exc
       ELSE /\ exc' = Exc("FileNotFoundError", "POM file not found", pom_files[fi], "")
            /\ fpc' = "except"
    /\ UNCHANGED <<fi, opened, attempts, failed_files, ret, pom_list, restOfBatch>>

\* if not os.access(file_path, os.R_OK): raise PermissionError
CheckReadable ==
    /\ fpc = "access"
    /\ IF files[pom_files[fi]].readable
       THEN fpc' = "parse" /\ exc' = exc
       ELSE /\ exc' = Exc("PermissionError", "Cannot read POM file", pom_files[fi], "")
            /\ fpc' = "except"
    /\ UNCHANGED <<fi, opened, attempts, failed_files, ret, pom_list, restOfBatch>>

\* tree = ET.parse(file_path): the file is opened and read
ParseXml ==
    /\ fpc = "parse"
    /\ opened' = opened \cup {pom_files[fi]}
    /\ IF files[pom_files[fi]].directory
       THEN /\ exc' = Exc("IsADirectoryError", "Is a directory", pom_files[fi], "")
            /\ fpc' = "except"
       ELSE IF ~files[pom_files[fi]].wellformed
       THEN /\ exc' = Exc("ParseError", "mismatched tag", pom_files[fi], "")
            /\ fpc' = "except"
       ELSE fpc' = "root" /\ exc' = exc
    /\ UNCHANGED <<fi, attempts, failed_files, ret, pom_list, restOfBatch>>

\* if root.tag.endswith("project"): ... else: raise ValueError
CheckRoot ==
    /\ fpc = "root"
    /\ IF EndsWith(files[pom_files[fi]].root_tag, T_project)
       THEN fpc' = "sections" /\ exc' = exc
       ELSE /\ exc' = Exc("ValueError", "Not a valid Maven POM file", pom_files[fi], "")
            /\ fpc' = "except"
    /\ UNCHANGED <<fi, opened, attempts, failed_files, ret, pom_list, restOfBatch>>

\* The handlers of from_file: except ET.ParseError raises a ParseError, except
\* Exception raises an Exception, each with the file path and the message handled.
Wrapped(e, file_path) ==
    IF e.type = "ParseError"
    THEN Exc("ParseError", "Malformed XML in", file_path, e.text)
    ELSE Exc("Exception", "Failed to parse POM file", file_path, e.text)

HandleException ==
    /\ fpc = "except"
    /\ exc' = Wrapped(exc, pom_files[fi])
    /\ fpc' = "raised"
    /\ UNCHANGED <<fi, opened, attempts, failed_files, ret, pom_list, restOfBatch>>

\* str(e): the message of the exception, without its type
StrOfExc(e) == [text |-> e.text, path |-> e.path, cause |-> e.cause]

\* Mutant of RecordFailure: the failure is recorded and the loop is left.
RecordFailure_Break ==
    /\ fpc = "raised"
    /\ failed_files' = Append(failed_files,
                             [pom_file |-> pom_files[fi], error |-> StrOfExc(exc)])
    /\ exc' = NoExc
    /\ fi' = Len(pom_files) + 1
    /\ fpc' = "loop"
    /\ UNCHANGED <<opened, attempts, ret, pom_list, restOfBatch>>

\* except Exception as e: failed_files.append((pom_file, str(e))); the loop goes on
RecordFailure ==
    /\ fpc = "raised"
    /\ failed_files' = Append(failed_files,
                             [pom_file |-> pom_files[fi], error |-> StrOfExc(exc)])
    /\ exc' = NoExc
    /\ fi' = fi + 1
    /\ fpc' = "loop"
    /\ UNCHANGED <<opened, attempts, ret, pom_list, restOfBatch>>

\* return parser.parse(); pom_list.append(pom)
AppendPom ==
    /\ fpc = "sections"
    /\ pom_list' = Append(pom_list, files[pom_files[fi]].pom)
    /\ fi' = fi + 1
    /\ fpc' = "loop"
    /\ UNCHANGED <<exc, opened, attempts, failed_files, ret, restOfBatch>>

\* if not pom_list: return [], []; return pom_files, pom_list
ReturnBatch ==
    /\ fpc = "loop"
    /\ fi > Len(pom_files)
    /\ ret' = IF pom_list = <<>> THEN [pom_files |-> <<>>, pom_list |-> <<>>]
              ELSE [pom_files |-> pom_files, pom_list |-> pom_list]
    /\ fpc' = "done"
    /\ UNCHANGED <<fi, exc, opened, attempts, failed_files, pom_list, restOfBatch>>

NextBatch ==
    \/ NoFiles
    \/ StartLoop
    \/ CallProcessPom
    \/ CheckExists
    \/ CheckReadable
    \/ ParseXml
    \/ CheckRoot
    \/ HandleException
    \/ RecordFailure
    \/ AppendPom
    \/ ReturnBatch

SpecBatch == InitBatch /\ [][NextBatch]_vars

\* The error kind the specification states for a file.
StatedErrorKind(f) ==
    IF ~f.exists THEN "FileNotFoundError"
    ELSE IF ~f.readable THEN "PermissionError"
    ELSE IF f.directory THEN "Exception"
    ELSE IF ~f.wellformed THEN "ParseError"
    ELSE IF ~EndsWith(f.root_tag, T_project) THEN "ValueError"
    ELSE "Exception"

\* C9: from_file reports each precondition violation as its own error kind: a path
\* that does not exist as FileNotFoundError, without the file being opened, an
\* unreadable one as PermissionError, malformed XML as ParseError, a root tag that
\* does not end with "project" as the not-a-POM error (ValueError); only other
\* failures surface as the generic Exception.
C9_DistinctErrorKinds ==
    fpc = "raised" =>
        /\ exc.type = StatedErrorKind(files[pom_files[fi]])
        /\ ~files[pom_files[fi]].exists => pom_files[fi] \notin opened

\* Whether the file at a path parses.
Parses(f) ==
    f.exists /\ f.readable /\ ~f.directory /\ f.wellformed /\ EndsWith(f.root_tag, T_project)

\* C10: a parse failure of one file never stops the batch: each path is attempted
\* exactly once, in list order; each failing path is recorded with its error; every
\* file that parses is in the PomInfo list, in the order of the paths.
C10_BatchContinues ==
    fpc = "done" =>
        LET failing == SelectSeq(pom_files, LAMBDA q : ~Parses(files[q]))
            parsing == SelectSeq(pom_files, LAMBDA q : Parses(files[q]))
        IN  /\ attempts = pom_files
            /\ Len(failed_files) = Len(failing)
            /\ \A j \in 1..Len(failing) :
                   /\ failed_files[j].pom_file = failing[j]
                   /\ failed_files[j].error.text /= ""
                   /\ failed_files[j].error.path = failing[j]
            /\ pom_list = [j \in 1..Len(parsing) |-> files[parsing[j]].pom]

\* A batch has ended in which a file failed before and after a file that parsed.
C10_Witness ==
    /\ fpc = "done"
    /\ \E i, j, k \in 1..Len(pom_files) :
           /\ i < j
           /\ j < k
           /\ ~Parses(files[i])
           /\ Parses(files[j])
           /\ ~Parses(files[k])
    /\ Len(failed_files) >= 2
    /\ pom_list /= <<>>

----------------------------------------------------------------------------
(* validate_pom: the seven checks, each giving the issues it appends.  An     *)
(* issue is its message with the values and the file path embedded in it.     *)

Issue(message, val, path) == [message |-> message, val |-> val, file_path |-> path]

\* f"{dep.gav.group_id}:{dep.gav.artifact_id}"
DepKey(dep) == Str(dep.gav.group_id) \o <<":">> \o Str(dep.gav.artifact_id)

\* if not pom.gav.group_id
MissingGroupId(p, path) ==
    IF ~Truthy(p.gav.group_id) THEN <<Issue("Missing groupId in", <<>>, path)>> ELSE <<>>

\* if not pom.gav.artifact_id
MissingArtifactId(p, path) ==
    IF ~Truthy(p.gav.artifact_id) THEN <<Issue("Missing artifactId in", <<>>, path)>>
    ELSE <<>>

\* if not pom.gav.version and pom.packaging != "pom"
MissingVersion(p, path) ==
    IF ~Truthy(p.gav.version) /\ p.packaging /= S_pom
    THEN <<Issue("Missing version in (non-parent POM)", <<>>, path)>>
    ELSE <<>>

\* pom.parent is a ParentInfo, a record of two fields, or None, which has one element.
HasParent(p) == Cardinality(DOMAIN p.parent) = 2

\* Mutant of VersionlessIssues: the parent is not looked at.
VersionlessIssues_IgnoresParent(p, path) ==
    LET found == SelectSeq(p.dependencies, LAMBDA dep : ~Truthy(dep.gav.version))
    IN  [i \in 1..Len(found) |->
            Issue("Dependency has no version and no parent in", DepKey(found[i]), path)]

\* for dep in pom.dependencies: if not dep.gav.version and not pom.parent
VersionlessIssues(p, path) ==
    LET found == SelectSeq(p.dependencies,
                           LAMBDA dep : ~Truthy(dep.gav.version) /\ ~HasParent(p))
    IN  [i \in 1..Len(found) |->
            Issue("Dependency has no version and no parent in", DepKey(found[i]), path)]

\* Mutant of CircularIssues: only the artifact ids are compared.
CircularIssues_ArtifactOnly(p, path) ==
    IF Truthy(p.gav.group_id) /\ Truthy(p.gav.artifact_id) /\ p.dependencies /= <<>>
    THEN LET found == SelectSeq(p.dependencies,
                                LAMBDA dep : dep.gav.artifact_id = p.gav.artifact_id)
         IN  [i \in 1..Len(found) |->
                 Issue("Circular dependency detected:", DepKey(found[i]), path)]
    ELSE <<>>

\* if pom.gav.group_id and pom.gav.artifact_id and pom.dependencies: for dep in ...
CircularIssues(p, path) ==
    IF Truthy(p.gav.group_id) /\ Truthy(p.gav.artifact_id) /\ p.dependencies /= <<>>
    THEN LET found == SelectSeq(p.dependencies,
                                LAMBDA dep : /\ dep.gav.group_id = p.gav.group_id
                                             /\ dep.gav.artifact_id = p.gav.artifact_id)
         IN  [i \in 1..Len(found) |->
                 Issue("Circular dependency detected:", DepKey(found[i]), path)]
    ELSE <<>>

\* Mutant of DuplicatesFrom: the set of seen keys is replaced by the last key.
RECURSIVE DuplicatesFrom_Reset(_, _, _, _)
DuplicatesFrom_Reset(dependencies, k, seen_deps, path) ==
    IF k > Len(dependencies) THEN <<>>
    ELSE LET dep_key == DepKey(dependencies[k])
         IN  (IF dep_key \in seen_deps
              THEN <<Issue("Duplicate dependency", dep_key, path)>> ELSE <<>>)
             \o DuplicatesFrom_Reset(dependencies, k + 1, {dep_key}, path)

\* for dep in pom.dependencies: if dep_key in seen_deps: ...; seen_deps.add(dep_key)
RECURSIVE DuplicatesFrom(_, _, _, _)
DuplicatesFrom(dependencies, k, seen_deps, path) ==
    IF k > Len(dependencies) THEN <<>>
    ELSE LET dep_key == DepKey(dependencies[k])
         IN  (IF dep_key \in seen_deps
              THEN <<Issue("Duplicate dependency", dep_key, path)>> ELSE <<>>)
             \o DuplicatesFrom(dependencies, k + 1, seen_deps \cup {dep_key}, path)

\* seen_deps = set(); if pom.dependencies: ...
DuplicateIssues(p, path) == DuplicatesFrom(p.dependencies, 1, {}, path)

S_placeholder_open == <<"$", "{">>

\* Mutant of PropertyIssue: every value with a placeholder is reported.
PropertyIssue_NoResolve(p, prop_name, path) ==
    LET prop_value == p.properties[prop_name]
    IN  IF Contains(prop_value, S_placeholder_open)
        THEN <<Issue("Unresolvable property placeholder", prop_value, path)>>
        ELSE <<>>

\* if "${" in prop_value: resolved = resolve(prop_value, pom.properties);
\* if resolved == prop_value: issues.append(...)
PropertyIssue(p, prop_name, path) ==
    LET prop_value == p.properties[prop_name]
    IN  IF Contains(prop_value, S_placeholder_open)
           /\ Resolve(prop_value, p.properties) = prop_value
        THEN <<Issue("Unresolvable property placeholder", prop_value, path)>>
        ELSE <<>>

\* for prop_name, prop_value in pom.properties.items()
RECURSIVE PropertyIssuesFrom(_, _, _)
PropertyIssuesFrom(p, k, path) ==
    IF k > Len(p.property_names) THEN <<>>
    ELSE PropertyIssue(p, p.property_names[k], path) \o PropertyIssuesFrom(p, k + 1, path)

PropertyIssues(p, path) == PropertyIssuesFrom(p, 1, path)

\* The steps of validate_pom, one check per step; issues is the list built so far.
restOfValidate ==
    <<cur_pom, cur_file, resolverVars, versionVars, pom_list, matrixVars, batchVars,
      analyzeVars>>

CheckGroupId ==
    /\ check = "groupId"
    /\ issues' = issues \o MissingGroupId(cur_pom, cur_file)
    /\ check' = "artifactId"
    /\ UNCHANGED restOfValidate

CheckArtifactId ==
    /\ check = "artifactId"
    /\ issues' = issues \o MissingArtifactId(cur_pom, cur_file)
    /\ check' = "version"
    /\ UNCHANGED restOfValidate

CheckVersion ==
    /\ check = "version"
    /\ issues' = issues \o MissingVersion(cur_pom, cur_file)
    /\ check' = "dependency_versions"
    /\ UNCHANGED restOfValidate

CheckDependencyVersions ==
    /\ check = "dependency_versions"
    /\ issues' = issues \o VersionlessIssues(cur_pom, cur_file)
    /\ check' = "circular"
    /\ UNCHANGED restOfValidate

CheckCircular ==
    /\ check = "circular"
    /\ issues' = issues \o CircularIssues(cur_pom, cur_file)
    /\ check' = "duplicates"
    /\ UNCHANGED restOfValidate

\* Mutant of CheckDuplicates: the issues are put at the front of the list.
CheckDuplicates_AtFront ==
    /\ check = "duplicates"
    /\ issues' = DuplicateIssues(cur_pom, cur_file) \o issues
    /\ check' = "properties"
    /\ UNCHANGED restOfValidate

CheckDuplicates ==
    /\ check = "duplicates"
    /\ issues' = issues \o DuplicateIssues(cur_pom, cur_file)
    /\ check' = "properties"
    /\ UNCHANGED restOfValidate

\* the last check, and return issues
CheckProperties ==
    /\ check = "properties"
    /\ issues' = issues \o PropertyIssues(cur_pom, cur_file)
    /\ check' = "returned"
    /\ UNCHANGED restOfValidate

ValidateSteps ==
    \/ CheckGroupId
    \/ CheckArtifactId
    \/ CheckVersion
    \/ CheckDependencyVersions
    \/ CheckCircular
    \/ CheckDuplicates
    \/ CheckProperties

----------------------------------------------------------------------------
(* Specification of the validator: validate_pom applied to a PomInfo and a   *)
(* file path.                                                                *)

MaxDeps == 3

K_c == <<"c">>
V_ref_z == <<"$", "{", "z", "}">>
V_X == <<"X">>
V_dollar == <<"$">>

\* The dependencies the lists are built from: the project itself with and without
\* version, another artifact with and without version, and dependencies without
\* group id and without artifact id.
D_self == DependencyInfo(S_com_foo, S_app, V_1_0)
D_self_inherited == DependencyInfo(S_com_foo, S_app, None)
D_bar == DependencyInfo(S_com_foo, S_bar, V_2_0)
D_bar_inherited == DependencyInfo(S_com_foo, S_bar, None)
D_no_group == DependencyInfo(None, S_app, None)
D_no_artifact == DependencyInfo(S_com_foo, None, V_1_0)

DependencyPool == {D_self, D_self_inherited, D_bar, D_bar_inherited, D_no_group,
                   D_no_artifact}

DependencyLists == UNION {[1..n -> DependencyPool] : n \in 0..MaxDeps}

\* The managed dependencies: none, or one coordinate twice and one without version.
ManagedLists == {<<>>, <<D_bar, D_bar, D_self_inherited>>}

\* The project coordinates, packaging and parent of the PomInfo validated.
Project(gav, packaging, parent) == [gav |-> gav, packaging |-> packaging, parent |-> parent]

ProjectPool ==
    {Project(GavInfo(S_com_foo, S_app, V_1_0), S_jar, None),
     Project(GavInfo(None, S_app, None), S_jar, ParentInfo(S_com_foo, S_core, V_1_0)),
     Project(GavInfo(None, S_app, V_1_0), S_jar, None),
     Project(GavInfo(S_com_foo, None, None), S_pom, None),
     Project(GavInfo(S_com_foo, S_app, None), S_jar, None)}

\* The properties: the mapping and the order of its keys.
Properties(props, names) == [props |-> props, names |-> names]

PropertyPool ==
    {Properties(NoProperties, <<>>),
     \* v is its own placeholder
     Properties([k \in {K_v} |-> V_ref_v], <<K_v>>),
     \* v = "${w}-${z}": w is declared, z is not
     Properties([k \in {K_v, K_w} |-> IF k = K_v THEN V_ref_w \o <<"-">> \o V_ref_z
                                      ELSE V_X],
                <<K_v, K_w>>),
     \* two values that stay as they are, w first
     Properties([k \in {K_v, K_w} |-> IF k = K_v THEN V_ref_z ELSE V_ref_w],
                <<K_w, K_v>>),
     \* w names v, which names an undeclared property
     Properties([k \in {K_v, K_w} |-> IF k = K_v THEN V_ref_z ELSE V_ref_v],
                <<K_v, K_w>>),
     \* c = "${v}${w}" with v = "$" and w = "{v}${w}": the substitutions give c back
     Properties([k \in {K_c, K_v, K_w} |->
                    IF k = K_c THEN V_ref_v \o V_ref_w
                    ELSE IF k = K_v THEN V_dollar
                    ELSE <<"{", "v", "}">> \o V_ref_w],
                <<K_c, K_v, K_w>>)}

InitValidate ==
    /\ \E h \in ProjectPool, pr \in PropertyPool, deps \in DependencyLists,
          managed \in ManagedLists :
           cur_pom = WithPropertyNames(
                         PomInfo(h.gav, h.packaging, h.parent, pr.props, deps, managed),
                         pr.names)
    /\ cur_file = 1
    /\ issues = <<>>
    /\ check = "groupId"
    /\ pom_list = <<>>
    /\ ResolverIdle
    /\ VersionsIdle
    /\ MatrixIdle
    /\ BatchIdle
    /\ AnalyzeIdle

NextValidate == ValidateSteps

SpecValidate == InitValidate /\ [][NextValidate]_vars

----------------------------------------------------------------------------
(* Properties of the validator *)

\* The issues of one check, in the order of the list.
IssuesOf(message) == SelectSeq(issues, LAMBDA i : i.message = message)

\* group:artifact of a dependency, as the issues show it.
Coordinates(d) ==
    (IF d.gav.group_id = None THEN <<"N", "o", "n", "e">> ELSE d.gav.group_id)
    \o <<":">>
    \o (IF d.gav.artifact_id = None THEN <<"N", "o", "n", "e">> ELSE d.gav.artifact_id)

\* C12: for every direct-dependency list, the number of duplicate-dependency issues
\* is the number of entries whose group:artifact key appeared earlier in the list:
\* k entries with one key give k - 1 issues with that key, whether or not their
\* versions differ, and managed dependencies never give a duplicate issue.
C12_DuplicatePerRepeat ==
    check = "returned" =>
        LET deps == cur_pom.dependencies
            dups == IssuesOf("Duplicate dependency")
            repeated == {i \in 1..Len(deps) :
                            \E j \in 1..(i - 1) : Coordinates(deps[j]) = Coordinates(deps[i])}
        IN  /\ Len(dups) = Cardinality(repeated)
            /\ \A i \in 1..Len(deps) :
                   LET same == {j \in 1..Len(deps) :
                                   Coordinates(deps[j]) = Coordinates(deps[i])}
                   IN  Cardinality({n \in 1..Len(dups) : dups[n].val = Coordinates(deps[i])})
                           = Cardinality(same) - 1
            /\ deps = <<>> => dups = <<>>

\* Three direct dependencies with one key and different versions have given two
\* issues, next to managed dependencies that repeat a key.
C12_Witness ==
    /\ check = "returned"
    /\ cur_pom.dependencies = <<D_bar, D_bar_inherited, D_bar>>
    /\ cur_pom.managed_dependencies = <<D_bar, D_bar, D_self_inherited>>
    /\ Len(IssuesOf("Duplicate dependency")) = 2

\* The project name the matrix shows for a PomInfo.
ProjectName(p) == IF p.gav.artifact_id = None THEN S_unknown ELSE p.gav.artifact_id

\* The direct dependencies that declare no version, in the order of the list.
Versionless(p) == SelectSeq(p.dependencies, LAMBDA d : d.gav.version = None)

\* Whether a dependency has both a group id and an artifact id.
Keyed(d) == d.gav.group_id /= None /\ d.gav.artifact_id /= None

\* The issues of check 4 are one for each direct dependency without version.
OneIssueEach(p) ==
    LET found == IssuesOf("Dependency has no version and no parent in")
    IN  /\ Len(found) = Len(Versionless(p))
        /\ \A i \in 1..Len(found) : found[i].val = Coordinates(Versionless(p)[i])

\* C13 as stated: for a PomInfo without parent, each direct dependency that declares
\* no version adds the project name under "inherited" of its group and artifact in
\* the matrix and gives exactly one check-4 issue; with a parent the entry is still
\* "inherited" and there is no check-4 issue.
C13_InheritedAndFlagged ==
    check = "returned" =>
        LET m == create_dict(<<cur_pom>>)
        IN  /\ \A i \in 1..Len(Versionless(cur_pom)) :
                   LET d == Versionless(cur_pom)[i]
                   IN  <<d.gav.group_id, d.gav.artifact_id, S_inherited,
                         ProjectName(cur_pom)>> \in Entries(m)
            /\ IF HasParent(cur_pom)
               THEN IssuesOf("Dependency has no version and no parent in") = <<>>
               ELSE OneIssueEach(cur_pom)

\* C13, amended: for a PomInfo without parent, each direct dependency that declares
\* no version gives exactly one check-4 issue and, when it has both a group id and an
\* artifact id, adds the project name under "inherited" of its group and artifact in
\* the matrix; with a parent the entry is still "inherited" and there is no check-4
\* issue; a dependency without group id or artifact id is in no entry of the matrix.
C13_InheritedWhenKeyed ==
    check = "returned" =>
        LET m == create_dict(<<cur_pom>>)
        IN  /\ \A i \in 1..Len(Versionless(cur_pom)) :
                   LET d == Versionless(cur_pom)[i]
                   IN  IF Keyed(d)
                       THEN <<d.gav.group_id, d.gav.artifact_id, S_inherited,
                              ProjectName(cur_pom)>> \in Entries(m)
                       ELSE \A e \in Entries(m) :
                                e[1] /= d.gav.group_id \/ e[2] /= d.gav.artifact_id
            /\ IF HasParent(cur_pom)
               THEN IssuesOf("Dependency has no version and no parent in") = <<>>
               ELSE OneIssueEach(cur_pom)

\* A PomInfo without parent has been validated whose direct dependencies without
\* version are one with and one without group id: two check-4 issues, one entry.
C13_Witness ==
    /\ check = "returned"
    /\ ~HasParent(cur_pom)
    /\ cur_pom.dependencies = <<D_bar_inherited, D_no_group>>
    /\ Len(IssuesOf("Dependency has no version and no parent in")) = 2
    /\ <<S_com_foo, S_bar, S_inherited, ProjectName(cur_pom)>>
           \in Entries(create_dict(<<cur_pom>>))

\* The direct dependencies with the group id and the artifact id of the PomInfo.
SelfReferences(p) ==
    SelectSeq(p.dependencies, LAMBDA d : /\ d.gav.group_id = p.gav.group_id
                                         /\ d.gav.artifact_id = p.gav.artifact_id)

\* The issues of check 5 are one for each self-reference.
OneIssuePerSelfReference(p) ==
    LET found == IssuesOf("Circular dependency detected:")
    IN  /\ Len(found) = Len(SelfReferences(p))
        /\ \A i \in 1..Len(found) : found[i].val = Coordinates(SelfReferences(p)[i])

\* C14 as stated: there is one self-reference issue for every direct dependency
\* whose group id and artifact id equal those of the PomInfo, and for no other, also
\* for a PomInfo whose own group id or artifact id is absent.
C14_SelfReferenceAlways ==
    check = "returned" => OneIssuePerSelfReference(cur_pom)

\* C14, amended: for a PomInfo that has both a group id and an artifact id there is
\* one self-reference issue for every direct dependency whose group id and artifact
\* id equal its own, and for no other; a PomInfo whose own group id or artifact id is
\* absent gives no self-reference issue.
C14_SelfReferenceWhenNamed ==
    check = "returned" =>
        IF cur_pom.gav.group_id /= None /\ cur_pom.gav.artifact_id /= None
        THEN OneIssuePerSelfReference(cur_pom)
        ELSE IssuesOf("Circular dependency detected:") = <<>>

\* A PomInfo has been validated that names itself twice, next to another dependency.
C14_Witness ==
    /\ check = "returned"
    /\ cur_pom.dependencies = <<D_self, D_bar, D_self_inherited>>
    /\ Len(IssuesOf("Circular dependency detected:")) = 2

\* The names of the placeholders of a text: what the resolver looks up.
PlaceholderNames(text) ==
    LET matches == FindIter(text, 1)
    IN  {Group1(text, matches[i]) : i \in 1..Len(matches)}

\* The number of issues of check 7 that show a text.
Reported(text) ==
    Cardinality({n \in 1..Len(IssuesOf("Unresolvable property placeholder")) :
                    IssuesOf("Unresolvable property placeholder")[n].val = text})

\* C15: there is an unresolvable-placeholder issue for a property exactly when its
\* value contains "${" and resolving it against the properties of the PomInfo returns
\* the value unchanged; a value that a substitution changed gives no issue, even when
\* another placeholder in it names no declared property; a property whose value is
\* its own placeholder is reported.
C15_UnresolvedProperties ==
    check = "returned" =>
        LET props == cur_pom.properties
        IN  \A k \in DOMAIN props :
                /\ Reported(props[k]) =
                       Cardinality({j \in DOMAIN props :
                                       /\ props[j] = props[k]
                                       /\ Contains(props[k], S_placeholder_open)
                                       /\ Resolve(props[k], props) = props[k]})
                /\ (/\ Resolve(props[k], props) /= props[k]
                    /\ PlaceholderNames(props[k]) \ DOMAIN props /= {})
                       => Reported(props[k]) = 0
                /\ props[k] = Placeholder(k) => Reported(props[k]) >= 1

\* A PomInfo has been validated in which v = "${w}-${z}" with w declared and z not,
\* and the value is not reported.
C15_Witness ==
    /\ check = "returned"
    /\ DOMAIN cur_pom.properties = {K_v, K_w}
    /\ cur_pom.properties[K_v] = V_ref_w \o <<"-">> \o V_ref_z
    /\ cur_pom.properties[K_w] = V_X
    /\ Resolve(cur_pom.properties[K_v], cur_pom.properties) = V_X \o <<"-">> \o V_ref_z
    /\ IssuesOf("Unresolvable property placeholder") = <<>>

\* The number of the check an issue comes from.
CheckNumber(issue) ==
    CASE issue.message = "Missing groupId in" -> 1
      [] issue.message = "Missing artifactId in" -> 2
      [] issue.message = "Missing version in (non-parent POM)" -> 3
      [] issue.message = "Dependency has no version and no parent in" -> 4
      [] issue.message = "Circular dependency detected:" -> 5
      [] issue.message = "Duplicate dependency" -> 6
      [] issue.message = "Unresolvable property placeholder" -> 7

\* Whether the texts of sub, from i on, stand in texts, from j on, in the same order.
RECURSIVE InOrder(_, _, _, _)
InOrder(sub, i, texts, j) ==
    IF i > Len(sub) THEN TRUE
    ELSE IF j > Len(texts) THEN FALSE
    ELSE IF sub[i] = texts[j] THEN InOrder(sub, i + 1, texts, j + 1)
    ELSE InOrder(sub, i, texts, j + 1)

\* The texts the issues of one check show, in the order of the issue list.
Shown(message) ==
    [n \in 1..Len(IssuesOf(message)) |-> IssuesOf(message)[n].val]

\* The issues are in the order of the checks, and those of one check in the order of
\* the dependency list or of the property mapping.
IssuesOrdered ==
    LET deps == cur_pom.dependencies
        keys == [i \in 1..Len(deps) |-> Coordinates(deps[i])]
        vals == [i \in 1..Len(cur_pom.property_names) |->
                    cur_pom.properties[cur_pom.property_names[i]]]
    IN  /\ \A i, j \in 1..Len(issues) :
               i < j => CheckNumber(issues[i]) <= CheckNumber(issues[j])
        /\ InOrder(Shown("Dependency has no version and no parent in"), 1, keys, 1)
        /\ InOrder(Shown("Circular dependency detected:"), 1, keys, 1)
        /\ InOrder(Shown("Duplicate dependency"), 1, keys, 1)
        /\ InOrder(Shown("Unresolvable property placeholder"), 1, vals, 1)

\* C16: the issue list is ordered by check: all issues of check k stand before all
\* issues of check k + 1, and within one check the issues follow the order of the
\* dependency list, or of the property mapping; validation leaves the PomInfo and its
\* lists unchanged.
C16_OrderedByCheck ==
    /\ [](check /= "idle" => IssuesOrdered)
    /\ [][check /= "idle" /\ check' /= "idle" => cur_pom' = cur_pom]_vars

\* A PomInfo has been validated with issues of five checks, two issues with
\* different dependencies in check 4 and two in check 7, the later key first.
C16_Witness ==
    /\ check = "returned"
    /\ {CheckNumber(issues[i]) : i \in 1..Len(issues)} = {3, 4, 5, 6, 7}
    /\ Shown("Dependency has no version and no parent in")
           = <<Coordinates(D_bar_inherited), Coordinates(D_self)>>
    /\ Shown("Unresolvable property placeholder") = <<V_ref_w, V_ref_z>>

----------------------------------------------------------------------------
(* Specification of the analyze command: cmd_analyze calls                   *)
(* _process_pom_files, the batch, then _validate_poms_if_requested and       *)
(* _generate_and_save_matrix.  status is the exit status of the process.     *)

restOfAnalyze ==
    <<files, pom_files, fi, exc, opened, attempts, failed_files, ret, pom_list,
      resolverVars, versionVars, pi, reserialized, mpc, validate>>

\* Mutant of ExitNoPoms: the command goes on without PomInfo.
ExitNoPoms_GoesOn ==
    /\ fpc = "done"
    /\ ret.pom_list = <<>>
    /\ fpc' = "generate"
    /\ UNCHANGED <<status, zi, all_issues, matrix, serialized, validateVars,
                   restOfAnalyze>>

\* if not pom_list: sys.exit(1); SystemExit is no Exception and leaves cmd_analyze
ExitNoPoms ==
    /\ fpc = "done"
    /\ ret.pom_list = <<>>
    /\ status' = 1
    /\ fpc' = "exited"
    /\ UNCHANGED <<zi, all_issues, matrix, serialized, validateVars, restOfAnalyze>>

\* if not hasattr(args, "validate") or not args.validate: return
SkipValidation ==
    /\ fpc = "done"
    /\ ret.pom_list /= <<>>
    /\ ~validate
    /\ fpc' = "generate"
    /\ UNCHANGED <<status, zi, all_issues, matrix, serialized, validateVars,
                   restOfAnalyze>>

\* all_issues = []; for pom_file, pom in zip(pom_files, pom_list)
StartValidation ==
    /\ fpc = "done"
    /\ ret.pom_list /= <<>>
    /\ validate
    /\ all_issues' = <<>>
    /\ zi' = 1
    /\ fpc' = "validate"
    /\ UNCHANGED <<status, matrix, serialized, validateVars, restOfAnalyze>>

\* zip stops at the end of the shorter list.
ZipLen(xs, ys) == IF Len(xs) < Len(ys) THEN Len(xs) ELSE Len(ys)

\* issues = validate_pom(pom, pom_file), with the next pair of the zip
CallValidatePom ==
    /\ fpc = "validate"
    /\ check = "idle"
    /\ zi <= ZipLen(ret.pom_files, ret.pom_list)
    /\ cur_file' = ret.pom_files[zi]
    /\ cur_pom' = ret.pom_list[zi]
    /\ issues' = <<>>
    /\ check' = "groupId"
    /\ UNCHANGED <<fpc, status, zi, all_issues, matrix, serialized, restOfAnalyze>>

\* all_issues.extend(issues)
ExtendIssues ==
    /\ fpc = "validate"
    /\ check = "returned"
    /\ all_issues' = all_issues \o issues
    /\ zi' = zi + 1
    /\ check' = "idle"
    /\ UNCHANGED <<fpc, status, cur_pom, cur_file, issues, matrix, serialized,
                   restOfAnalyze>>

\* the zip is exhausted: the issues are printed
EndValidation ==
    /\ fpc = "validate"
    /\ check = "idle"
    /\ zi > ZipLen(ret.pom_files, ret.pom_list)
    /\ fpc' = "generate"
    /\ UNCHANGED <<status, zi, all_issues, matrix, serialized, validateVars,
                   restOfAnalyze>>

\* matrix = create_dict(pom_list)
GenerateMatrix ==
    /\ fpc = "generate"
    /\ matrix' = create_dict(ret.pom_list)
    /\ fpc' = "write"
    /\ UNCHANGED <<status, zi, all_issues, serialized, validateVars, restOfAnalyze>>

\* write_json(matrix, output_path): the output directory or file may not be writable,
\* and prepare_for_serialization may raise; every Exception ends in sys.exit(1).
\* Otherwise cmd_analyze and main return and the exit status is 0.
WriteJson ==
    /\ fpc = "write"
    /\ \E writable \in BOOLEAN :
           IF writable
           THEN /\ serialized' = prepare_for_serialization(matrix, FALSE)
                /\ status' = IF serialized'.kind = "raised" THEN 1 ELSE 0
           ELSE /\ serialized' = serialized
                /\ status' = 1
    /\ fpc' = "exited"
    /\ UNCHANGED <<zi, all_issues, matrix, validateVars, restOfAnalyze>>

F_svc == File(TRUE, TRUE, FALSE, TRUE, T_project, P_svc)
F_anon == File(TRUE, TRUE, FALSE, TRUE, T_ns_project, P_anon)
F_web == File(TRUE, TRUE, FALSE, TRUE, T_project, P_web)

AnalyzeFilePool == {F_missing, F_malformed, F_app, F_svc, F_anon, F_web}

InitAnalyze ==
    /\ \E n \in 0..MaxFiles :
           /\ files \in [1..n -> AnalyzeFilePool]
           /\ pom_files = [i \in 1..n |-> i]
    /\ validate \in BOOLEAN
    /\ fi = 1
    /\ fpc = "start"
    /\ exc = NoExc
    /\ opened = {}
    /\ attempts = <<>>
    /\ failed_files = <<>>
    /\ ret = None
    /\ pom_list = <<>>
    /\ zi = 0
    /\ all_issues = <<>>
    /\ status = None
    /\ ResolverIdle
    /\ VersionsIdle
    /\ MatrixIdle
    /\ ValidateIdle

NextAnalyze ==
    \/ NoFiles
    \/ StartLoop
    \/ CallProcessPom
    \/ CheckExists
    \/ CheckReadable
    \/ ParseXml
    \/ CheckRoot
    \/ HandleException
    \/ RecordFailure
    \/ AppendPom
    \/ ReturnBatch
    \/ ExitNoPoms
    \/ SkipValidation
    \/ StartValidation
    \/ CallValidatePom
    \/ ValidateSteps
    \/ ExtendIssues
    \/ EndValidation
    \/ GenerateMatrix
    \/ WriteJson

SpecAnalyze == InitAnalyze /\ [][NextAnalyze]_vars

----------------------------------------------------------------------------
(* Properties of the analyze command *)

\* The paths of the files that parse, in the order of the paths.
ParsingPaths == SelectSeq(pom_files, LAMBDA q : Parses(files[q]))

\* The PomInfo of the files that parse.
ParsedPoms == [j \in 1..Len(ParsingPaths) |-> files[ParsingPaths[j]].pom]

\* C11: when no file of the batch parses, or no file is found, the analyze operation
\* ends as a hard failure, exit status 1, and neither validation nor the generation
\* or the writing of the matrix is reached; when at least one file parses, the matrix
\* is generated from exactly the PomInfo of the files that parse.
C11_HardFailureWithoutPoms ==
    /\ (fpc \in {"done", "validate", "generate", "write", "exited"} /\ ParsedPoms = <<>>) =>
           /\ fpc \in {"done", "exited"}
           /\ fpc = "exited" => status = 1
           /\ check = "idle"
           /\ zi = 0
           /\ all_issues = <<>>
           /\ matrix = None
           /\ serialized = None
    /\ (fpc = "exited" /\ ParsedPoms /= <<>>) => matrix = create_dict(ParsedPoms)
    /\ (fpc = "write" /\ ParsedPoms /= <<>>) => matrix = create_dict(ParsedPoms)

\* The command has exited with status 1 after a batch of two or more files, asked to
\* validate, in which no file parsed.
C11_Witness ==
    /\ fpc = "exited"
    /\ status = 1
    /\ validate
    /\ Len(pom_files) >= 2
    /\ Len(failed_files) = Len(pom_files)
    /\ matrix = None

\* C17: with validation requested, every PomInfo that was parsed is validated
\* together with the path of the file it was parsed from, so that each issue names
\* the file of its own PomInfo, also when a file earlier in the list failed to parse.
C17_ValidatedWithOwnFile ==
    /\ (fpc = "validate" /\ check /= "idle") =>
           /\ zi <= Len(ParsingPaths)
           /\ cur_file = ParsingPaths[zi]
           /\ cur_pom = files[cur_file].pom
           /\ \A n \in 1..Len(issues) : issues[n].file_path = ParsingPaths[zi]
    /\ (fpc \in {"generate", "write", "exited"} /\ validate /\ ParsedPoms /= <<>>) =>
           zi = Len(ParsedPoms) + 1

====
